---- MODULE Spec2Model ----
(***************************************************************************)
(* Model of src/src/controllers/wasteController.js: the response envelope  *)
(* builder, the validation helpers, the asyncHandler wrapper, the four     *)
(* endpoint handlers, the cache store and the withCache middleware.        *)
(*                                                                         *)
(* JavaScript values are tagged records, so that undefined, null, NaN,     *)
(* numbers and strings stay distinct.  A JavaScript string is a sequence   *)
(* of one-character strings, so that parseInt and trim are computed on the *)
(* characters as the runtime computes them.                                *)
(***************************************************************************)
EXTENDS Integers, Sequences, FiniteSets, TLC

VARIABLES
    req,        \* the request being served (route, path, params, query)
    rows,       \* number of rows of the table matching the request's filter
    pc,         \* position of the request in its handler / middleware
    res,        \* the response object: statusCode and the bodies written
    log,        \* records handed to logger.error
    issued,     \* queries handed to the persistence collaborator
    dq,         \* promise of the findMany query
    cq,         \* promise of the count query
    pg,         \* the pagination spec held by getWasteLists
    thrown,     \* the failure caught by asyncHandler, if any
    promise,    \* the promise returned by the asyncHandler wrapper
    cache,      \* the Map of the cache store in use
    now,        \* Date.now(), in milliseconds
    ticks,      \* number of clock advances so far
    locals,     \* res.locals.cache: the set capability, when attached
    mw,         \* the withCache invocation serving the request
    consulted,  \* the Map as it was when withCache read it
    got,        \* the get just made on the store: its key and its result
    hist        \* per key: the most recent set (value, time, ttl), or none

vars == <<req, rows, pc, res, log, issued, dq, cq, pg, thrown, promise,
          cache, now, ticks, locals, mw, consulted, got, hist>>

handlerVars == <<rows, log, issued, dq, cq, pg, thrown, promise>>
cacheVars == <<cache, now, ticks, locals, mw, consulted, got, hist>>

----------------------------------------------------------------------------
(* JavaScript values *)

Undefined == [t |-> "undefined"]
Null == [t |-> "null"]
NaN == [t |-> "NaN"]
Num(n) == [t |-> "number", n |-> n]
Str(s) == [t |-> "string", s |-> s]

DigitChars == <<"0", "1", "2", "3", "4", "5", "6", "7", "8", "9">>
IsDigit(c) == \E i \in DOMAIN DigitChars : DigitChars[i] = c
DigitVal(c) == (CHOOSE i \in DOMAIN DigitChars : DigitChars[i] = c) - 1
IsSpace(c) == c = " "

RECURSIVE NatToChars(_)
NatToChars(n) ==
    IF n < 10 THEN <<DigitChars[n + 1]>>
    ELSE Append(NatToChars(n \div 10), DigitChars[(n % 10) + 1])

\* String(v), as parseInt applies it to a non-string argument
ToChars(v) ==
    CASE v.t = "string" -> v.s
      [] v.t = "number" -> IF v.n < 0 THEN <<"-">> \o NatToChars(-v.n)
                           ELSE NatToChars(v.n)
      [] v.t = "NaN" -> <<"N", "a", "N">>
      [] v.t = "null" -> <<"n", "u", "l", "l">>
      [] OTHER -> <<"u", "n", "d", "e", "f", "i", "n", "e", "d">>

RECURSIVE SkipSpaces(_)
SkipSpaces(s) ==
    IF s # <<>> /\ IsSpace(Head(s)) THEN SkipSpaces(Tail(s)) ELSE s

RECURSIVE DropTrailingSpaces(_)
DropTrailingSpaces(s) ==
    IF s # <<>> /\ IsSpace(s[Len(s)])
    THEN DropTrailingSpaces(SubSeq(s, 1, Len(s) - 1))
    ELSE s

\* the longest prefix of s made of decimal digits
RECURSIVE DigitPrefix(_)
DigitPrefix(s) ==
    IF s # <<>> /\ IsDigit(Head(s))
    THEN <<Head(s)>> \o DigitPrefix(Tail(s))
    ELSE <<>>

RECURSIVE DigitsValue(_)
DigitsValue(d) ==
    IF d = <<>> THEN 0
    ELSE 10 * DigitsValue(SubSeq(d, 1, Len(d) - 1)) + DigitVal(d[Len(d)])

\* parseInt(v, 10): leading whitespace is skipped, one sign is read, then
\* the digits up to the first character that is not one; no digit gives NaN
ParseInt(v) ==
    LET s == SkipSpaces(ToChars(v))
        signed == s # <<>> /\ Head(s) \in {"-", "+"}
        body == IF signed THEN Tail(s) ELSE s
        digits == DigitPrefix(body)
    IN  IF digits = <<>> THEN NaN
        ELSE IF signed /\ Head(s) = "-" THEN Num(-DigitsValue(digits))
        ELSE Num(DigitsValue(digits))

\* String.prototype.trim
Trim(s) == DropTrailingSpaces(SkipSpaces(s))

\* Math.max and Math.min of two arguments: NaN if either is NaN
MathMax(a, b) ==
    IF a.t = "NaN" \/ b.t = "NaN" THEN NaN
    ELSE IF a.n >= b.n THEN a ELSE b

MathMin(a, b) ==
    IF a.t = "NaN" \/ b.t = "NaN" THEN NaN
    ELSE IF a.n <= b.n THEN a ELSE b

\* (a - 1) * b
PredTimes(a, b) ==
    IF a.t = "NaN" \/ b.t = "NaN" THEN NaN ELSE Num((a.n - 1) * b.n)

\* Math.ceil(a / b) for a >= 0 and b >= 1; NaN if either is NaN
CeilDiv(a, b) ==
    IF a.t = "NaN" \/ b.t = "NaN" THEN NaN
    ELSE Num((a.n + b.n - 1) \div b.n)

\* a default parameter value replaces undefined only
OrDefault(v, d) == IF v = Undefined THEN d ELSE v

\* !v for the values a query string field can hold
Falsy(v) ==
    \/ v.t \in {"undefined", "null", "NaN"}
    \/ v.t = "string" /\ v.s = <<>>
    \/ v.t = "number" /\ v.n = 0

----------------------------------------------------------------------------
(* ApiResponse *)

\* {success: true, message, data, ...meta}: the spread fields come last
ApiSuccess(data, message, meta) ==
    meta @@ [success |-> TRUE, message |-> message, data |-> data]

ApiError(message, status, details) ==
    details @@ [success |-> FALSE, message |-> message, status |-> status]

NoFields == [x \in {} |-> TRUE]

----------------------------------------------------------------------------
(* ValidationHelpers *)

DefaultPage == Num(1)
DefaultLimit == Num(10)
MaxLimit == 100

validatePagination(page, limit) ==
    LET parsedPage == MathMax(Num(1), ParseInt(OrDefault(page, DefaultPage)))
        parsedLimit == MathMin(Num(MaxLimit),
                         MathMax(Num(1), ParseInt(OrDefault(limit, DefaultLimit))))
    IN  [page |-> parsedPage,
         limit |-> parsedLimit,
         skip |-> PredTimes(parsedPage, parsedLimit)]

\* the parsed id, or the Error thrown
validateIdThrows(id) ==
    LET parsed == ParseInt(id) IN parsed.t = "NaN" \/ parsed.n <= 0

validateId(id) == ParseInt(id)

InvalidIdError(entityName) ==
    [message |-> "Invalid " \o entityName \o " provided"]

----------------------------------------------------------------------------
(* The requests and the persistence collaborator *)

MaxRows == 3

\* numbers of rows matching a request's filter
RowCounts == (0 .. MaxRows) \cup {120}

Paths == {"/waste", "/waste/search"}

IdInputs ==
    {Str(<<"a", "b", "c">>), Str(<<"-", "1">>), Str(<<"0">>), Str(<<"4", "2">>),
     Str(<<"7", "x">>), Str(<<>>), Num(-1), Num(0)}

PageInputs ==
    {Undefined, Str(<<"a", "b", "c">>), Str(<<"-", "1">>), Str(<<"0">>),
     Str(<<"1">>), Str(<<"2">>), Str(<<"3">>)}

LimitInputs ==
    {Undefined, Str(<<"a", "b", "c">>), Str(<<>>), Str(<<"-", "5">>), Str(<<"0">>),
     Str(<<"1">>), Str(<<"2">>), Str(<<"5", "0">>), Str(<<"1", "2", "0">>)}

SearchInputs == {Undefined, Str(<<" ", " ">>), Str(<<"p", "e", "t">>)}

NameInputs ==
    {Undefined, Str(<<>>), Str(<<" ", " ">>), Str(<<" ", "p", "e", "t", " ">>)}

Request(route, path, id, page, limit, search, name) ==
    [route |-> route, path |-> path, method |-> "GET", id |-> id,
     page |-> page, limit |-> limit, search |-> search, name |-> name]

Requests ==
    UNION { {Request("types", p, Undefined, Undefined, Undefined, Undefined, Undefined)}
            \cup {Request("byId", p, i, Undefined, Undefined, Undefined, Undefined)
                    : i \in IdInputs}
            \cup {Request("list", p, Undefined, pi[1], pi[2], pi[3], Undefined)
                    : pi \in PageInputs \X LimitInputs \X SearchInputs}
            \cup {Request("name", p, Undefined, Undefined, Undefined, Undefined, n)
                    : n \in NameInputs}
          : p \in Paths }

NoRequest == [route |-> "none"]

\* failures the collaborator can reject a query with
PrismaErrors ==
    {[message |-> "Record not found", code |-> "P2025"],
     [message |-> "Can't reach database server", code |-> "P1001"],
     [message |-> "Service unavailable", status |-> 503],
     [message |-> ""]}

Pending == [state |-> "pending"]
NotIssued == [state |-> "none"]
Fulfilled(v) == [state |-> "fulfilled", value |-> v]
Rejected(e) == [state |-> "rejected", reason |-> e]

\* the rows a findMany returns out of n matching rows, in order; a skip or
\* take that is absent or not an integer leaves that side of the window open
FindManyRows(n, skip, take) ==
    LET from == IF skip.t = "number" THEN skip.n ELSE 0
        upto == IF take.t = "number" /\ from + take.n < n THEN from + take.n ELSE n
    IN  [i \in 1 .. (IF upto > from THEN upto - from ELSE 0) |-> from + i]

\* outcomes of a query: its rows (or its count), or a rejection.  A query
\* can be rejected whatever its arguments, so a collaborator that refuses a
\* skip or take that is not an integer is among the behaviours
QueryOutcomes(q, n) ==
    {Rejected(e) : e \in PrismaErrors}
    \cup {Fulfilled(IF q.op = "count" THEN Num(n)
                    ELSE FindManyRows(n, q.skip, q.take))}

----------------------------------------------------------------------------
(* The response object *)

FreshResponse == [statusCode |-> 200, bodies |-> <<>>]

\* res.status(s)
ResStatus(r, s) == [r EXCEPT !.statusCode = s]

\* res.json(body): the body goes out with the status code set so far
ResJson(r, body) ==
    [r EXCEPT !.bodies = Append(@, [status |-> r.statusCode, body |-> body])]

----------------------------------------------------------------------------
(* asyncHandler *)

NotFoundCode == "P2025"

\* mutant: the not-found sentinel of the collaborator is not recognised
ErrorStatus_NoSentinel(error) ==
    IF "status" \in DOMAIN error /\ error.status # 0 THEN error.status ELSE 500

\* error.status || (error.code === 'P2025' ? 404 : 500)
ErrorStatus(error) ==
    IF "status" \in DOMAIN error /\ error.status # 0 THEN error.status
    ELSE IF "code" \in DOMAIN error /\ error.code = NotFoundCode THEN 404
    ELSE 500

\* error.message || 'An unexpected error occurred'
ErrorMessage(error) ==
    IF "message" \in DOMAIN error /\ error.message # "" THEN error.message
    ELSE "An unexpected error occurred"

\* the record handed to logger.error (the stack trace is left out: nothing
\* reads it)
LogRecord(r, error) ==
    [message |-> IF "message" \in DOMAIN error THEN error.message ELSE "",
     path |-> r.path, method |-> r.method]

\* the envelope the catch block builds
ErrorResponse(r, error) ==
    ApiError(ErrorMessage(error), ErrorStatus(error), [path |-> r.path])

\* what the catch block writes on response rs:
\* res.status(response.status).json(response)
CatchWrite(r, rs, error) ==
    LET response == ErrorResponse(r, error)
    IN  ResJson(ResStatus(rs, response.status), response)

\* the catch block for request r, whose response so far is rs and whose log
\* so far is lg: log, build the envelope, write it; the wrapper's promise
\* then resolves
Catch(r, rs, lg, error) ==
    /\ log' = Append(lg, LogRecord(r, error))
    /\ res' = CatchWrite(r, rs, error)
    /\ thrown' = error
    /\ promise' = "resolved"
    /\ pc' = "done"

NoError == [none |-> TRUE]

\* the handler returned without throwing, having written rs: the wrapper
\* writes nothing and its promise resolves
Return(rs, lg) ==
    /\ log' = lg
    /\ res' = rs
    /\ thrown' = NoError
    /\ promise' = "resolved"
    /\ pc' = "done"

\* the handler suspended at an await
Suspend(at) ==
    /\ log' = <<>>
    /\ res' = FreshResponse
    /\ thrown' = NoError
    /\ promise' = "pending"
    /\ pc' = at

----------------------------------------------------------------------------
(* The endpoint handlers *)

FindMany(model, where, skip, take) ==
    [model |-> model, op |-> "findMany", where |-> where, skip |-> skip, take |-> take]

Count(where) ==
    [model |-> "waste", op |-> "count", where |-> where, skip |-> Undefined,
     take |-> Undefined]

NotFoundMessage(route) ==
    CASE route = "types" -> "No waste types found."
      [] route = "byId" -> "No waste found for the given ID."
      [] OTHER -> "No waste found with the given name."

\* mutant: the empty result is not checked
RespondRows_EmptyIsSuccess(rs, found, notFound) ==
    ResJson(rs, ApiSuccess(found, "Success", NoFields))

\* if (!rows.length) 404 with the handler's message, else the success envelope
RespondRows(rs, found, notFound) ==
    IF Len(found) = 0
    THEN ResJson(ResStatus(rs, 404), ApiError(notFound, 404, NoFields))
    ELSE ResJson(rs, ApiSuccess(found, "Success", NoFields))

SearchCap == 50

\* req.query.x?.trim()
OptTrim(v) == IF v.t = "string" THEN Str(Trim(v.s)) ELSE Undefined

\* the where clause of the list: built only for a non-empty search
ListWhere(search) ==
    IF Falsy(search) THEN Undefined
    ELSE [contains |-> search.s, mode |-> "insensitive"]

\* const pagination = {...} and the success envelope of getWasteLists
ListResponse(p, wasteData, totalWasteCount) ==
    ApiSuccess([items |-> wasteData,
                pagination |-> [total |-> totalWasteCount,
                                page |-> p.page,
                                limit |-> p.limit,
                                totalPages |-> CeilDiv(totalWasteCount, p.limit)]],
               "Success", NoFields)

\* mutant: the count is not joined; the handler goes on once the rows are in
PromiseAll_DataOnly(a, b) ==
    IF a.state = "rejected" THEN a
    ELSE IF b.state = "rejected" THEN b
    ELSE IF a.state = "fulfilled"
         THEN Fulfilled(<<a.value, IF b.state = "fulfilled" THEN b.value ELSE Num(0)>>)
    ELSE Pending

\* Promise.all of the two queries: rejected as soon as one is rejected,
\* fulfilled once both are fulfilled
PromiseAll(a, b) ==
    IF a.state = "rejected" THEN a
    ELSE IF b.state = "rejected" THEN b
    ELSE IF a.state = "fulfilled" /\ b.state = "fulfilled"
         THEN Fulfilled(<<a.value, b.value>>)
    ELSE Pending

\* getAllWasteTypes up to its await
StartTypes(r) ==
    /\ issued' = <<FindMany("waste_type", Undefined, Undefined, Undefined)>>
    /\ dq' = Pending /\ cq' = NotIssued /\ pg' = Undefined
    /\ Suspend("awaitQuery")

\* getWasteById up to its await, or to the throw of validateId
StartById(r) ==
    /\ cq' = NotIssued /\ pg' = Undefined
    /\ IF validateIdThrows(r.id)
       THEN /\ issued' = <<>>
            /\ dq' = NotIssued
            /\ Catch(r, FreshResponse, <<>>, InvalidIdError("Waste Type"))
       ELSE /\ issued' = <<FindMany("waste", [waste_type_id |-> validateId(r.id)],
                                    Undefined, Undefined)>>
            /\ dq' = Pending
            /\ Suspend("awaitQuery")

\* getWasteLists up to its await: both queries are issued, then joined
StartList(r) ==
    LET p == validatePagination(r.page, r.limit)
        where == ListWhere(OptTrim(r.search))
    IN  /\ pg' = p
        /\ issued' = <<FindMany("waste", where, p.skip, p.limit), Count(where)>>
        /\ dq' = Pending /\ cq' = Pending
        /\ Suspend("awaitAll")

\* findWasteName up to its await, or to the 400 for a missing name
StartName(r) ==
    LET name == OptTrim(r.name)
    IN  /\ cq' = NotIssued /\ pg' = Undefined
        /\ IF Falsy(name)
           THEN /\ issued' = <<>>
                /\ dq' = NotIssued
                /\ Return(ResJson(ResStatus(FreshResponse, 400),
                                  ApiError("Waste name is required.", 400, NoFields)),
                          <<>>)
           ELSE /\ issued' = <<FindMany("waste",
                                        [contains |-> name.s, mode |-> "insensitive"],
                                        Undefined, Num(SearchCap))>>
                /\ dq' = Pending
                /\ Suspend("awaitQuery")

\* the wrapper calls the handler of the request's route, which runs to its
\* first await (or to its end)
Handle ==
    /\ pc = "received"
    /\ CASE req.route = "types" -> StartTypes(req)
         [] req.route = "byId" -> StartById(req)
         [] req.route = "list" -> StartList(req)
         [] OTHER -> StartName(req)
    /\ UNCHANGED <<req, rows>>
    /\ UNCHANGED cacheVars

\* the single query of getAllWasteTypes, getWasteById or findWasteName
\* settles and the handler resumes
SettleQuery ==
    /\ pc = "awaitQuery"
    /\ dq = Pending
    /\ \E o \in QueryOutcomes(issued[1], rows) :
          /\ dq' = o
          /\ IF o.state = "rejected"
             THEN Catch(req, res, log, o.reason)
             ELSE Return(RespondRows(res, o.value, NotFoundMessage(req.route)), log)
    /\ UNCHANGED <<req, rows, issued, cq, pg>>
    /\ UNCHANGED cacheVars

\* the handler of getWasteLists resumes when Promise.all settles
ResumeList(all) ==
    IF pc # "awaitAll" \/ all.state = "pending"
    THEN UNCHANGED <<log, res, thrown, promise, pc>>
    ELSE IF all.state = "rejected"
    THEN Catch(req, res, log, all.reason)
    ELSE Return(ResJson(res, ListResponse(pg, all.value[1], all.value[2])), log)

\* the findMany of getWasteLists settles
SettleData ==
    /\ req.route = "list"
    /\ dq = Pending
    /\ \E o \in QueryOutcomes(issued[1], rows) :
          /\ dq' = o
          /\ ResumeList(PromiseAll(o, cq))
    /\ UNCHANGED <<req, rows, issued, cq, pg>>
    /\ UNCHANGED cacheVars

\* the count of getWasteLists settles
SettleCount ==
    /\ req.route = "list"
    /\ cq = Pending
    /\ \E o \in QueryOutcomes(issued[2], rows) :
          /\ cq' = o
          /\ ResumeList(PromiseAll(dq, o))
    /\ UNCHANGED <<req, rows, issued, dq, pg>>
    /\ UNCHANGED cacheVars

----------------------------------------------------------------------------
(* The cache store *)

Keys == {"k1", "k2"}
CacheValues == {Str(<<"a">>), Str(<<"b">>)}
Absent == [t |-> "absent"]

MsPerSecond == 1000
DefaultTtl == 3600

\* const cache = new Map()
createCache == [k \in Keys |-> Absent]

\* mutant: an entry is still served at its expiry instant
CacheGet_InclusiveExpiry(store, key, t) ==
    LET item == store[key]
    IN  IF item # Absent /\ item.expires >= t THEN item.value ELSE Null

\* get: item && item.expires > Date.now() ? item.value : null
CacheGet(store, key, t) ==
    LET item == store[key]
    IN  IF item # Absent /\ item.expires > t THEN item.value ELSE Null

\* set: the entry replaces any earlier one
CacheSet(store, key, value, ttl, t) ==
    [store EXCEPT ![key] = [value |-> value, expires |-> t + (ttl * MsPerSecond)]]

\* clear: Map.delete
CacheClear(store, key) == [store EXCEPT ![key] = Absent]

\* no get has been made since the store or the clock last changed
NoGet == [key |-> "", value |-> Null]

\* the clock
MaxTicks == 4
TickSteps == {500, 1800000}

Tick ==
    /\ ticks < MaxTicks
    /\ \E d \in TickSteps : now' = now + d
    /\ ticks' = ticks + 1
    /\ got' = NoGet
    /\ UNCHANGED <<req, pc, res, locals, mw, consulted, cache, hist>>
    /\ UNCHANGED handlerVars

\* ttl values handed to set; undefined takes the default
TtlInputs == {Undefined, Num(0), Num(1)}

StoreGet(k) ==
    /\ got' = [key |-> k, value |-> CacheGet(cache, k, now)]
    /\ UNCHANGED <<req, pc, res, locals, mw, consulted, cache, now, ticks, hist>>
    /\ UNCHANGED handlerVars

StoreSet(k, v, ttl) ==
    LET secs == OrDefault(ttl, Num(DefaultTtl)).n
    IN  /\ cache' = CacheSet(cache, k, v, secs, now)
        /\ hist' = [hist EXCEPT ![k] = [value |-> v, at |-> now, ttl |-> secs]]
        /\ got' = NoGet
        /\ UNCHANGED <<req, pc, res, locals, mw, consulted, now, ticks>>
        /\ UNCHANGED handlerVars

StoreClear(k) ==
    /\ cache' = CacheClear(cache, k)
    /\ hist' = [hist EXCEPT ![k] = Absent]
    /\ got' = NoGet
    /\ UNCHANGED <<req, pc, res, locals, mw, consulted, now, ticks>>
    /\ UNCHANGED handlerVars

----------------------------------------------------------------------------
(* withCache *)

\* the requests of a route wrapped with withCache: getCacheKey(req) is the
\* request's key, and throws for a request it cannot derive a key from
CacheRequests ==
    {[route |-> "cached", path |-> "/waste", method |-> "GET", key |-> k]
        : k \in Keys \cup {"unkeyable"}}

KeyError == [message |-> "Cannot read properties of undefined"]

getCacheKeyThrows(r) == r.key \notin Keys
getCacheKey(r) == r.key

\* mutant: the store is created once and shared by the calls of the middleware
WithCacheStore_Shared == cache

\* const cache = createCache(), run by every call of the middleware
WithCacheStore == createCache

NoInvocation == [key |-> "", at |-> 0, prior |-> Absent, nexts |-> <<>>, wrote |-> FALSE]
NextOk == [t |-> "next"]
NextError(e) == [t |-> "next", error |-> e]

\* the middleware serves request r: a fresh store, the key, the lookup, then
\* either the cached body or next() with the set capability attached
WithCache(r) ==
    /\ pc \in {"idle", "done"}
    /\ req' = r
    /\ cache' = WithCacheStore
    /\ consulted' = cache'
    /\ IF getCacheKeyThrows(r)
       THEN /\ mw' = [key |-> "", at |-> now, prior |-> Absent,
                      nexts |-> <<NextError(KeyError)>>, wrote |-> FALSE]
            /\ res' = FreshResponse
            /\ locals' = Undefined
            /\ pc' = "done"
            /\ UNCHANGED got
       ELSE LET cacheKey == getCacheKey(r)
                cached == CacheGet(cache', cacheKey, now)
            IN  /\ got' = [key |-> cacheKey, value |-> cached]
                /\ IF ~Falsy(cached)
                   THEN /\ res' = ResJson(FreshResponse, cached)
                        /\ mw' = [key |-> cacheKey, at |-> now, prior |-> hist[cacheKey],
                                  nexts |-> <<>>, wrote |-> TRUE]
                        /\ locals' = Undefined
                        /\ pc' = "done"
                   ELSE /\ res' = FreshResponse
                        /\ locals' = [key |-> cacheKey, ttl |-> DefaultTtl]
                        /\ mw' = [key |-> cacheKey, at |-> now, prior |-> hist[cacheKey],
                                  nexts |-> <<NextOk>>, wrote |-> FALSE]
                        /\ pc' = "handler"
    /\ UNCHANGED <<now, ticks, hist>>
    /\ UNCHANGED handlerVars

\* the next stage calls res.locals.cache.set(data)
HandlerSet(data) ==
    /\ pc = "handler"
    /\ cache' = CacheSet(cache, locals.key, data, locals.ttl, now)
    /\ hist' = [hist EXCEPT ![locals.key] =
                   [value |-> data, at |-> now, ttl |-> locals.ttl]]
    /\ got' = NoGet
    /\ UNCHANGED <<req, pc, res, locals, mw, consulted, now, ticks>>
    /\ UNCHANGED handlerVars

\* the next stage writes its response and finishes
HandlerRespond(data) ==
    /\ pc = "handler"
    /\ res' = ResJson(res, data)
    /\ pc' = "done"
    /\ UNCHANGED <<req, locals, mw, consulted, cache, now, ticks, got, hist>>
    /\ UNCHANGED handlerVars

----------------------------------------------------------------------------
(* Specifications *)

InitHandlers ==
    /\ res = FreshResponse
    /\ res = FreshResponse
    /\ log = <<>>
    /\ issued = <<>>
    /\ dq = NotIssued
    /\ cq = NotIssued
    /\ pg = Undefined
    /\ thrown = NoError
    /\ promise = "none"

InitCache ==
    /\ cache = createCache
    /\ now = 0
    /\ ticks = 0
    /\ locals = Undefined
    /\ mw = NoInvocation
    /\ consulted = createCache
    /\ got = NoGet
    /\ hist = [k \in Keys |-> Absent]

\* A request has arrived, with some number of rows matching its filter.  The
\* handlers keep no state between requests, so one request is followed from
\* its arrival to the settling of every promise it created.
Init ==
    /\ req \in Requests
    /\ rows \in RowCounts
    /\ pc = "received"
    /\ InitHandlers
    /\ InitCache

\* the four endpoints behind asyncHandler
Next ==
    \/ Handle
    \/ SettleQuery
    \/ SettleData
    \/ SettleCount

Spec == Init /\ [][Next]_vars

\* a route wrapped with withCache, its next stage, and the clock
CacheNext ==
    \/ \E r \in CacheRequests : WithCache(r)
    \/ \E data \in CacheValues : HandlerSet(data)
    \/ \E data \in CacheValues : HandlerRespond(data)
    \/ Tick

CacheInit ==
    /\ req = NoRequest
    /\ rows = 0
    /\ pc = "idle"
    /\ InitHandlers
    /\ InitCache

CacheSpec == CacheInit /\ [][CacheNext]_vars

\* one store under get, set and clear, and the clock
StoreNext ==
    \/ \E k \in Keys : StoreGet(k)
    \/ \E k \in Keys, v \in CacheValues, ttl \in TtlInputs : StoreSet(k, v, ttl)
    \/ \E k \in Keys : StoreClear(k)
    \/ Tick

StoreSpec == CacheInit /\ [][StoreNext]_vars

----------------------------------------------------------------------------
(* Properties of the endpoint handlers (specification Spec) *)

\* a JavaScript number that is an integer within [lo, hi]
IntWithin(v, lo, hi) == v.t = "number" /\ lo <= v.n /\ v.n <= hi

\* the handler has run validatePagination
Validated == req.route = "list" /\ pc # "received"

\* C1: for every raw page and limit, the pagination spec has an integer
\* page >= 1, an integer limit within [1, 100] and skip = (page - 1) * limit
C1_PaginationWellFormed ==
    Validated =>
        /\ pg.page.t = "number" /\ pg.page.n >= 1
        /\ IntWithin(pg.limit, 1, 100)
        /\ pg.skip.t = "number"
        /\ pg.skip.n = (pg.page.n - 1) * pg.limit.n

\* the path id does not parse to a positive integer
BadId(id) == LET n == ParseInt(id) IN ~(n.t = "number" /\ n.n > 0)

\* C2: a waste-by-type-id request whose id does not parse to a positive
\* integer never reaches the persistence collaborator and is answered with
\* status 400 and an error envelope; a valid id is queried as that integer
C2_InvalidIdIs400 ==
    (req.route = "byId" /\ pc # "received") =>
        IF BadId(req.id)
        THEN /\ issued = <<>>
             /\ Len(res.bodies) = 1
             /\ res.bodies[1].status = 400
             /\ res.bodies[1].body.success = FALSE
        ELSE /\ Len(issued) = 1
             /\ issued[1].where.waste_type_id.t = "number"

SuccessShape(b) ==
    /\ DOMAIN b = {"success", "message", "data"}
    /\ b.success = TRUE

FailureShape(b) ==
    /\ DOMAIN b = {"success", "message", "status", "path"}
    /\ b.success = FALSE
    /\ b.path = req.path

\* C3: every body written is one envelope, either the success shape or the
\* failure shape with message, status and the request path
C3_EnvelopeShapes ==
    /\ Len(res.bodies) <= 1
    /\ \A i \in DOMAIN res.bodies :
          SuccessShape(res.bodies[i].body) \/ FailureShape(res.bodies[i].body)

\* the failures the handler of the request can have met: the throw of
\* validateId, and the rejections of its queries
Failures ==
    (IF req.route = "byId" /\ pc # "received" /\ BadId(req.id)
     THEN {[message |-> "Invalid Waste Type provided"]} ELSE {})
    \cup (IF dq.state = "rejected" THEN {dq.reason} ELSE {})
    \cup (IF cq.state = "rejected" THEN {cq.reason} ELSE {})

\* the status the wrapper is to pick for a failure
ExpectedStatus(e) ==
    IF "status" \in DOMAIN e THEN e.status
    ELSE IF "code" \in DOMAIN e /\ e.code = "P2025" THEN 404
    ELSE 500

\* C5: when the handler fails the wrapper logs once, writes one error
\* envelope whose status is the failure's own, else 404 for code P2025, else
\* 500, equal to the HTTP status, with the request path, and its promise
\* resolves; when the handler does not fail the wrapper writes nothing
C5_WrapperCatch ==
    IF Failures # {}
    THEN /\ pc = "done"
         /\ promise = "resolved"
         /\ \E e \in Failures :
               /\ thrown = e
               /\ Len(log) = 1
               /\ log[1].path = req.path
               /\ Len(res.bodies) = 1
               /\ res.bodies[1].status = ExpectedStatus(e)
               /\ res.statusCode = ExpectedStatus(e)
               /\ res.bodies[1].body.success = FALSE
               /\ res.bodies[1].body.status = ExpectedStatus(e)
               /\ res.bodies[1].body.path = req.path
    ELSE /\ thrown = NoError
         /\ log = <<>>
         /\ \A i \in DOMAIN res.bodies : "path" \notin DOMAIN res.bodies[i].body
         /\ pc = "done" => promise = "resolved"

C5_Witness ==
    /\ pc = "done"
    /\ req.route = "types"
    /\ dq.state = "rejected"
    /\ "code" \in DOMAIN dq.reason
    /\ dq.reason.code = "P2025"
    /\ res.bodies[1].status = 404

\* the name is missing or holds nothing but whitespace
BlankName(v) == v.t # "string" \/ \A i \in DOMAIN v.s : v.s[i] = " "

FixedNotFound(route) ==
    CASE route = "types" -> "No waste types found."
      [] route = "byId" -> "No waste found for the given ID."
      [] route = "name" -> "No waste found with the given name."
      [] OTHER -> ""

\* C6: when persistence does not fail, list-types, waste-by-type-id and
\* name-search answer 404 with their fixed message for zero rows and a
\* success envelope otherwise; a blank name is a 400 without a query; the
\* paginated list never answers 404 and answers zero rows with a success
\* envelope holding no items and total 0
C6_StatusByRows ==
    (pc = "done" /\ Failures = {}) =>
        /\ Len(res.bodies) = 1
        /\ LET out == res.bodies[1]
           IN  CASE req.route = "name" /\ BlankName(req.name) ->
                      /\ out.status = 400
                      /\ out.body.success = FALSE
                      /\ out.body.message = "Waste name is required."
                      /\ issued = <<>>
                 [] req.route = "list" ->
                      /\ out.status = 200
                      /\ out.body.success = TRUE
                      /\ rows = 0 => /\ out.body.data.items = <<>>
                                     /\ out.body.data.pagination.total = Num(0)
                 [] OTHER ->
                      IF rows = 0
                      THEN /\ out.status = 404
                           /\ out.body.success = FALSE
                           /\ out.body.message = FixedNotFound(req.route)
                      ELSE /\ out.status = 200
                           /\ out.body.success = TRUE
                           /\ Len(issued) = 1

C6_Witness ==
    /\ pc = "done"
    /\ req.route = "name"
    /\ ~BlankName(req.name)
    /\ rows = 0
    /\ dq.state = "fulfilled"
    /\ res.bodies[1].status = 404

\* C7: the data query is issued with integer skip = (page - 1) * limit and
\* take = limit, and the success response reports total = N, the validated
\* page and limit, totalPages = ceil(N / limit) and at most limit items
C7_PaginationMetadata ==
    Validated =>
        /\ issued[1].take = pg.limit
        /\ IntWithin(issued[1].take, 1, 100)
        /\ issued[1].skip.t = "number"
        /\ pg.page.t = "number"
        /\ issued[1].skip.n = (pg.page.n - 1) * pg.limit.n
        /\ \A i \in DOMAIN res.bodies :
              res.bodies[i].body.success =>
                 LET d == res.bodies[i].body.data
                     m == d.pagination
                 IN  /\ m.total = Num(rows)
                     /\ m.limit = pg.limit
                     /\ m.page = pg.page
                     /\ m.totalPages.t = "number"
                     /\ m.totalPages.n * m.limit.n >= rows
                     /\ (m.totalPages.n - 1) * m.limit.n < rows
                     /\ Len(d.items) <= m.limit.n

\* C8: both queries of the paginated list are issued before the join; a
\* success response is written only once both are fulfilled; once either
\* is rejected there is no success response and exactly one error envelope;
\* no interleaving writes two responses
C8_JoinBeforeRespond ==
    Validated =>
        /\ Len(issued) = 2
        /\ dq.state # "none" /\ cq.state # "none"
        /\ Len(res.bodies) <= 1
        /\ \A i \in DOMAIN res.bodies :
              res.bodies[i].body.success =>
                 dq.state = "fulfilled" /\ cq.state = "fulfilled"
        /\ (dq.state = "rejected" \/ cq.state = "rejected") =>
              /\ Len(res.bodies) = 1
              /\ res.bodies[1].body.success = FALSE
              /\ "path" \in DOMAIN res.bodies[1].body
        /\ (dq.state = "fulfilled" /\ cq.state = "fulfilled" /\ pc = "done"
              /\ Len(res.bodies) = 1 /\ res.bodies[1].body.success) =>
              res.bodies[1].body.data.items = dq.value

C8_Witness ==
    /\ req.route = "list"
    /\ pc = "done"
    /\ dq.state = "fulfilled"
    /\ cq.state = "rejected"
    /\ Len(res.bodies) = 1
    /\ res.bodies[1].body.success = FALSE

----------------------------------------------------------------------------
(* Properties of withCache (specification CacheSpec) *)

\* the instant the entry recorded in h stops being valid
Expiry(h) == h.at + (h.ttl * 1000)

\* C4: once the next stage has stored data for key K, a later request with
\* key K before the TTL elapses is answered with the stored value and
\* next() is not called; after the TTL the request reaches next() again
C4_HitWithinTtl ==
    mw.prior # Absent =>
        IF mw.at < Expiry(mw.prior)
        THEN /\ mw.nexts = <<>>
             /\ Len(res.bodies) = 1
             /\ res.bodies[1].body = mw.prior.value
        ELSE mw.nexts = <<NextOk>>

\* C9: the store each invocation consults is empty, the hit branch is never
\* taken, withCache writes no response, and every request reaches next()
\* with the set capability attached, or next(error) when the key
\* computation fails
C9_NoHit ==
    mw # NoInvocation =>
        /\ \A k \in Keys : consulted[k] = Absent
        /\ ~mw.wrote
        /\ pc = "handler" => res.bodies = <<>>
        /\ IF req.key \in Keys
           THEN /\ mw.nexts = <<NextOk>>
                /\ locals # Undefined
                /\ locals.key = req.key
           ELSE /\ Len(mw.nexts) = 1
                /\ "error" \in DOMAIN mw.nexts[1]

C9_Witness ==
    /\ mw.prior # Absent
    /\ mw.at < Expiry(mw.prior)
    /\ mw.at > mw.prior.at
    /\ mw.nexts = <<NextOk>>
    /\ pc = "handler"

----------------------------------------------------------------------------
(* Properties of the cache store (specification StoreSpec) *)

\* what get(k) is to return: the value of the most recent set not cleared
\* since, while now is before that set's expiry; null otherwise
ExpectedGet(k) ==
    IF hist[k] # Absent /\ now < Expiry(hist[k]) THEN hist[k].value ELSE Null

\* C10: on one store, get(key) returns the most recent set value iff no
\* clear happened since and now is before its expiry, and null otherwise,
\* whatever was done to the other keys
C10_GetSemantics ==
    /\ \A k \in Keys : CacheGet(cache, k, now) = ExpectedGet(k)
    /\ got.key \in Keys => got.value = ExpectedGet(got.key)

C10_Witness ==
    \E k \in Keys :
        /\ hist[k] # Absent
        /\ hist[k].ttl > 0
        /\ now = Expiry(hist[k])
        /\ got.key = k
        /\ got.value = Null

====
